---- MODULE Spec2Model ----
(***************************************************************************)
(* Model of elasticdl/python/elasticdl/callbacks.py: the three Keras       *)
(* callbacks SavedModelExporter, MaxStepsStopping and                      *)
(* LearningRateScheduler, each driven synchronously by the training loop.  *)
(*                                                                         *)
(* The three callbacks share no state of their own, so one behaviour of    *)
(* the model follows the driver exercising one registered callback         *)
(* (variable `registered`); the reachable states are the union of the      *)
(* three callbacks' state spaces.                                          *)
(***************************************************************************)
EXTENDS Integers, Sequences, FiniteSets, TLC

VARIABLES
    registered,       \* the callback the driver exercises in this behaviour
    params,           \* self.params: saved_model_path, batch_size
    max_steps,        \* MaxStepsStopping._max_steps
    completed_steps,  \* MaxStepsStopping._completed_steps
    stop_training,    \* self.model.stop_training
    lastTask,         \* the last MaxStepsStopping call: arguments, pre-state, outcome
    nCalls,           \* number of callback invocations made by the driver
    optimizer,        \* self.model.optimizer
    schedule,         \* LearningRateScheduler._schedule
    lastBatch,        \* the last on_train_batch_begin call: argument, pre-state, outcome
    fs,               \* what the filesystem holds at the export path
    pc,               \* position inside SavedModelExporter.on_train_end
    exported,         \* the model returned by get_model_to_export
    calls,            \* external calls made by the current on_train_end, in order
    entry             \* filesystem and optimizer as they were when on_train_end was entered

vars == << registered, params, max_steps, completed_steps, stop_training, lastTask,
           nCalls, optimizer, schedule, lastBatch, fs, pc, exported, calls, entry >>

stepsVars == << max_steps, completed_steps, stop_training, lastTask >>
lrVars == << schedule, lastBatch >>
\* (optimizer is written by both the scheduler and the exporter)
exportVars == << fs, pc, exported, calls, entry >>

-----------------------------------------------------------------------------
(* Bounds of the model *)

\* the driver makes at most this many callback invocations in a behaviour
MaxCalls == 4

-----------------------------------------------------------------------------
(* Python values *)

\* A Python value: its type, and its payload (v for numbers, s for strings).
\* A floating-point payload is a code for a 64-bit value; the codes with the
\* lowest bit set stand for values that only float64 represents exactly.
PyNone == [kind |-> "None", v |-> 0, s |-> ""]
PyInt(n) == [kind |-> "int", v |-> n, s |-> ""]
PyStr(x) == [kind |-> "str", v |-> 0, s |-> x]
PyFloat(kind, n) == [kind |-> kind, v |-> n, s |-> ""]

\* a key missing from the params dict
NoKey == [kind |-> "absent", v |-> 0, s |-> ""]

\* dict.get(key, default): the default stands in for a missing key
DictGet(d, key, default) == IF d[key] = NoKey THEN default ELSE d[key]

Abs(n) == IF n < 0 THEN -n ELSE n

\* int(a / b) for Python ints a, b with b # 0: true division, then truncation
\* toward zero.  (The float quotient is exact enough for int() to return the
\* truncated quotient whenever |a| + |b| < 2^53, which covers the model's range.)
IntOfTrueDiv(a, b) ==
    LET q == Abs(a) \div Abs(b)
    IN  IF (a < 0) = (b < 0) THEN q ELSE -q

\* floor(a / b), the mathematical floor of the quotient
FloorDiv(a, b) ==
    LET t == IntOfTrueDiv(a, b)
    IN  IF t * b # a /\ ((a < 0) # (b < 0)) THEN t - 1 ELSE t

-----------------------------------------------------------------------------
(* MaxStepsStopping *)

MaxStepsValues == {4, 1000}
BatchSizes == {NoKey, PyNone, PyInt(0), PyInt(50), PyInt(100), PyInt(-50), PyInt(-100)}
TaskTypes == {"TRAINING", "EVALUATION", "TRAIN_END_CALLBACK"}
RecordIndexes == {0, 50, 250}
Tasks == [type : TaskTypes, start : RecordIndexes, end : RecordIndexes]
SeedSteps == {0, 999}

\* no call yet; prev_op is the call made before the last one
NoTask == [op |-> "none", prev_op |-> "none",
           task |-> [type |-> "none", start |-> 0, end |-> 0],
           result |-> "none", steps0 |-> 0, stop0 |-> FALSE]

\* task.type == elasticdl_pb2.TRAINING
IsTrainingAnyType(type) == TRUE
IsTraining(type) == type = "TRAINING"

\* int(task_records / batch_size)
TaskBatchCountFloor(task_records, batch_size) == FloorDiv(task_records, batch_size)
TaskBatchCountNegated(task_records, batch_size) == -IntOfTrueDiv(task_records, batch_size)
TaskBatchCount(task_records, batch_size) == IntOfTrueDiv(task_records, batch_size)

\* self._completed_steps > self._max_steps
ExceedsMaxOrEqual(steps, max) == steps >= max
ExceedsMax(steps, max) == steps > max

\* MaxStepsStopping.set_completed_steps(completed_steps)
set_completed_steps(n) ==
    /\ registered = "MaxStepsStopping"
    /\ nCalls < MaxCalls
    /\ completed_steps' = n
    /\ lastTask' = [NoTask EXCEPT !.op = "set_completed_steps", !.result = "ok",
                                  !.prev_op = lastTask.op,
                                  !.steps0 = completed_steps, !.stop0 = stop_training]
    /\ nCalls' = nCalls + 1
    /\ UNCHANGED << registered, params, max_steps, stop_training, optimizer >>
    /\ UNCHANGED lrVars
    /\ UNCHANGED exportVars

\* MaxStepsStopping.on_task_end(task)
on_task_end(task) ==
    /\ registered = "MaxStepsStopping"
    /\ nCalls < MaxCalls
    /\ nCalls' = nCalls + 1
    /\ LET batch_size == DictGet(params, "batch_size", PyNone)
           task_records == task.end - task.start
           outcome ==
               IF ~IsTraining(task.type) THEN "ok"
               ELSE IF batch_size.kind # "int" THEN "TypeError"
               ELSE IF batch_size.v = 0 THEN "ZeroDivisionError"
               ELSE "ok"
           done == [NoTask EXCEPT !.op = "on_task_end", !.task = task,
                                  !.result = outcome, !.prev_op = lastTask.op,
                                  !.steps0 = completed_steps, !.stop0 = stop_training]
       IN  /\ lastTask' = done
           /\ IF IsTraining(task.type) /\ outcome = "ok"
              THEN LET steps == completed_steps + TaskBatchCount(task_records, batch_size.v)
                   IN  /\ completed_steps' = steps
                       /\ stop_training' = IF ExceedsMax(steps, max_steps)
                                           THEN TRUE ELSE stop_training
              ELSE UNCHANGED << completed_steps, stop_training >>
    /\ UNCHANGED << registered, params, max_steps, optimizer >>
    /\ UNCHANGED lrVars
    /\ UNCHANGED exportVars

-----------------------------------------------------------------------------
(* LearningRateScheduler *)

Batches == {0, 999, 1000}
Schedules == {"step", "str", "int", "None", "float16", "float32", "float64", "tensor"}

\* self._schedule(batch): the docstring's example schedule, and schedules that
\* return one value of each type
Schedule(name, batch) ==
    CASE name = "step"    -> IF batch < 1000 THEN PyFloat("float", 21) ELSE PyFloat("float", 11)
      [] name = "str"     -> PyStr("0.001")
      [] name = "int"     -> PyInt(1)
      [] name = "None"    -> PyNone
      [] name = "float16" -> PyFloat("np.float16", 4)
      [] name = "float32" -> PyFloat("np.float32", 12)
      [] name = "float64" -> PyFloat("np.float64", 13)
      [] name = "tensor"  -> PyFloat("tf.Tensor", 14)

\* self.model.optimizer: None, an optimizer without an lr attribute, or one
\* whose lr is a backend variable of some dtype
NoneOptimizer == [kind |-> "None", dtype |-> "", lr |-> 0]
Optimizers ==
    {NoneOptimizer, [kind |-> "no_lr", dtype |-> "", lr |-> 0]}
        \cup [kind : {"lr"}, dtype : {"float32", "float64"}, lr : {10}]

NoBatch == [op |-> "none", batch |-> 0, result |-> "none",
            optimizer0 |-> NoneOptimizer, schedule_calls |-> 0]

\* hasattr(self.model.optimizer, "lr")
HasLrAlways(opt) == TRUE
HasLr(opt) == opt.kind = "lr"

\* isinstance(lr, (tf.Tensor, float, np.float32, np.float64))
IsFloatInstanceOrInt(lr) == lr.kind \in {"tf.Tensor", "float", "np.float32", "np.float64", "int"}
IsFloatInstance(lr) == lr.kind \in {"tf.Tensor", "float", "np.float32", "np.float64"}

\* K.get_value(lr): the value of a tensor, or the value itself
GetValue(lr) == lr.v

\* the conversion K.set_value applies: np.asarray(value, dtype=dtype(x))
AsDtype(value, dtype) == IF dtype = "float32" THEN value - (value % 2) ELSE value

\* K.set_value(self.model.optimizer.lr, value)
SetValue(opt, value) == [opt EXCEPT !.lr = AsDtype(value, opt.dtype)]

\* LearningRateScheduler.on_train_batch_begin(batch)
on_train_batch_begin(batch) ==
    /\ registered = "LearningRateScheduler"
    /\ nCalls < MaxCalls
    /\ nCalls' = nCalls + 1
    /\ LET call == [NoBatch EXCEPT !.op = "on_train_batch_begin", !.batch = batch,
                                   !.optimizer0 = optimizer]
           lr == Schedule(schedule, batch)
       IN  IF ~HasLr(optimizer)
           THEN /\ lastBatch' = [call EXCEPT !.result = "ValueError: optimizer"]
                /\ UNCHANGED optimizer
           ELSE IF ~IsFloatInstance(lr)
           THEN /\ lastBatch' = [call EXCEPT !.result = "ValueError: schedule",
                                             !.schedule_calls = 1]
                /\ UNCHANGED optimizer
           ELSE /\ lastBatch' = [call EXCEPT !.result = "ok", !.schedule_calls = 1]
                /\ optimizer' = SetValue(optimizer, GetValue(lr))
    /\ UNCHANGED << registered, params, schedule >>
    /\ UNCHANGED stepsVars
    /\ UNCHANGED exportVars

-----------------------------------------------------------------------------
(* SavedModelExporter *)

\* params["saved_model_path"]: missing, None, empty, or a real path
SavedModelPaths == {NoKey, PyNone, PyStr(""), PyStr("/export/model")}

\* What the export path holds: nothing, a plain file, or a directory with
\* items.  Item 0 is content that was there before any export; item n > 0 is
\* the SavedModel written by the n-th on_train_end of the behaviour.
Absent == [kind |-> "absent", items |-> {}]
PlainFile == [kind |-> "file", items |-> {}]
Dir(items) == [kind |-> "dir", items |-> items]
InitialFs == {Absent, PlainFile, Dir({0})}

NoModel == [is |-> "none", optimizer |-> NoneOptimizer]
CompiledOptimizer == [kind |-> "lr", dtype |-> "float32", lr |-> 10]

\* saved_model_path is None or saved_model_path == ""
PathUnsetNoneOnly(saved_model_path) == saved_model_path = PyNone
PathUnset(saved_model_path) == saved_model_path = PyNone \/ saved_model_path = PyStr("")

\* os.path.exists(saved_model_path)
PathExists(f) == f.kind # "absent"

\* shutil.rmtree(saved_model_path) on a directory
RmtreeSkipped(f) == f
Rmtree(f) == Absent

\* model.optimizer = None
DetachedOptimizerKept(opt) == opt
DetachedOptimizer(opt) == NoneOptimizer

\* tf.saved_model.save(model, saved_model_path): writes the model's files into
\* the directory, creating it when it is missing
SavedModelSave(f, item) == Dir(f.items \cup {item})

\* the optimizer of the model that get_model_to_export returned
ExportedOptimizer == IF exported.is = "self" THEN optimizer ELSE exported.optimizer

Raise(call) ==
    /\ pc' = "raised"
    /\ calls' = Append(calls, call)

exportFrame ==
    /\ UNCHANGED << registered, params, nCalls >>
    /\ UNCHANGED stepsVars
    /\ UNCHANGED lrVars

\* on_train_end, lines 45-48: the path check
on_train_end ==
    /\ registered = "SavedModelExporter"
    /\ pc = "idle"
    /\ nCalls < MaxCalls
    /\ nCalls' = nCalls + 1
    /\ entry' = [fs |-> fs, optimizer |-> optimizer]
    /\ calls' = << >>
    /\ exported' = NoModel
    /\ LET saved_model_path == DictGet(params, "saved_model_path", PyNone)
       IN  pc' = IF PathUnset(saved_model_path) THEN "returned" ELSE "get_task"
    /\ UNCHANGED << registered, params, optimizer, fs >>
    /\ UNCHANGED stepsVars
    /\ UNCHANGED lrVars

\* line 49: self._task_data_service.get_train_end_callback_task()
get_train_end_callback_task ==
    /\ pc = "get_task"
    /\ \E ok \in BOOLEAN :
          IF ok THEN /\ pc' = "get_dataset"
                     /\ calls' = Append(calls, "get_train_end_callback_task")
                ELSE Raise("get_train_end_callback_task")
    /\ UNCHANGED << optimizer, fs, exported, entry >>
    /\ exportFrame

\* lines 50-51: self._task_data_service.get_dataset_by_task(task)
get_dataset_by_task ==
    /\ pc = "get_dataset"
    /\ \E dataset \in {"None", "dataset", "error"} :
          IF dataset = "error" THEN Raise("get_dataset_by_task")
          ELSE /\ pc' = IF dataset = "None" THEN "returned" ELSE "dataset_fn"
               /\ calls' = Append(calls, "get_dataset_by_task")
    /\ UNCHANGED << optimizer, fs, exported, entry >>
    /\ exportFrame

\* lines 52-57: self._dataset_fn(dataset, Mode.PREDICTION, metadata), then
\* dataset.batch(batch_size)
dataset_fn ==
    /\ pc = "dataset_fn"
    /\ \E ok \in BOOLEAN :
          IF ok THEN /\ pc' = "get_model"
                     /\ calls' = Append(calls, "dataset_fn")
                ELSE Raise("dataset_fn")
    /\ UNCHANGED << optimizer, fs, exported, entry >>
    /\ exportFrame

\* lines 58-60: self._model_handler.get_model_to_export(self.model, dataset),
\* which returns self.model itself or another model
get_model_to_export ==
    /\ pc = "get_model"
    /\ \/ /\ \E m \in {[is |-> "self", optimizer |-> NoneOptimizer],
                          [is |-> "copy", optimizer |-> NoneOptimizer],
                          [is |-> "copy", optimizer |-> optimizer]} : exported' = m
          /\ pc' = "exists"
          /\ calls' = Append(calls, "get_model_to_export")
       \/ /\ Raise("get_model_to_export")
          /\ UNCHANGED exported
    /\ UNCHANGED << optimizer, fs, entry >>
    /\ exportFrame

\* lines 61-62: if os.path.exists(saved_model_path): shutil.rmtree(...)
\* rmtree raises on a plain file, and can fail on a directory (permissions)
remove_existing ==
    /\ pc = "exists"
    /\ IF ~PathExists(fs)
       THEN /\ pc' = "detach"
            /\ UNCHANGED << fs, calls >>
       ELSE IF fs.kind = "file"
       THEN /\ Raise("rmtree")
            /\ UNCHANGED fs
       ELSE \E ok \in BOOLEAN :
              IF ok THEN /\ fs' = Rmtree(fs)
                         /\ pc' = "detach"
                         /\ calls' = Append(calls, "rmtree")
                    ELSE /\ Raise("rmtree")
                         /\ UNCHANGED fs
    /\ UNCHANGED << optimizer, exported, entry >>
    /\ exportFrame

\* line 66: model.optimizer = None
detach_optimizer ==
    /\ pc = "detach"
    /\ pc' = "save"
    /\ calls' = Append(calls, "detach_optimizer")
    /\ IF exported.is = "self"
       THEN /\ optimizer' = DetachedOptimizer(optimizer)
            /\ UNCHANGED exported
       ELSE /\ exported' = [exported EXCEPT !.optimizer = DetachedOptimizer(@)]
            /\ UNCHANGED optimizer
    /\ UNCHANGED << fs, entry >>
    /\ exportFrame

\* line 67: tf.saved_model.save(model, saved_model_path); a failed save
\* (disk, permissions) leaves nothing or a partial directory behind
saved_model_save ==
    /\ pc = "save"
    /\ \/ /\ fs.kind # "file"
          /\ fs' = SavedModelSave(fs, nCalls)
          /\ pc' = "returned"
          /\ calls' = Append(calls, "save")
       \/ /\ Raise("save")
          /\ fs' \in {fs, IF fs.kind = "file" THEN fs ELSE Dir(fs.items \cup {-1})}
    /\ UNCHANGED << optimizer, exported, entry >>
    /\ exportFrame

\* control is back with the driver, which may end another training run
train_end_done ==
    /\ pc \in {"returned", "raised"}
    /\ nCalls < MaxCalls
    /\ pc' = "idle"
    /\ UNCHANGED << optimizer, fs, exported, calls, entry >>
    /\ exportFrame

-----------------------------------------------------------------------------
(* The training driver *)

Callbacks == {"SavedModelExporter", "MaxStepsStopping", "LearningRateScheduler"}

Init ==
    /\ registered \in Callbacks
    /\ params \in [saved_model_path : SavedModelPaths, batch_size : BatchSizes]
    /\ registered = "SavedModelExporter" => params.batch_size = PyInt(50)
    /\ registered # "SavedModelExporter" => params.saved_model_path = NoKey
    /\ registered = "LearningRateScheduler" => params.batch_size = PyInt(50)
    /\ max_steps \in MaxStepsValues
    /\ registered # "MaxStepsStopping" => max_steps = 4
    /\ completed_steps = 0
    /\ stop_training = FALSE
    /\ lastTask = NoTask
    /\ nCalls = 0
    /\ optimizer \in Optimizers
    /\ registered # "LearningRateScheduler" => optimizer = CompiledOptimizer
    /\ schedule \in Schedules
    /\ registered # "LearningRateScheduler" => schedule = "step"
    /\ lastBatch = NoBatch
    /\ fs \in InitialFs
    /\ registered # "SavedModelExporter" => fs = Absent
    /\ pc = "idle"
    /\ exported = NoModel
    /\ calls = << >>
    /\ entry = [fs |-> fs, optimizer |-> optimizer]

Next ==
    \/ \E n \in SeedSteps : set_completed_steps(n)
    \/ \E task \in Tasks : on_task_end(task)
    \/ \E batch \in Batches : on_train_batch_begin(batch)
    \/ on_train_end
    \/ get_train_end_callback_task
    \/ get_dataset_by_task
    \/ dataset_fn
    \/ get_model_to_export
    \/ remove_existing
    \/ detach_optimizer
    \/ saved_model_save
    \/ train_end_done

Spec == Init /\ [][Next]_vars

-----------------------------------------------------------------------------
(* Properties of SavedModelExporter *)

ExportRank(call) ==
    CASE call = "get_train_end_callback_task" -> 1
      [] call = "get_dataset_by_task"         -> 2
      [] call = "dataset_fn"                  -> 3
      [] call = "get_model_to_export"         -> 4
      [] call = "rmtree"                      -> 5
      [] call = "detach_optimizer"            -> 6
      [] call = "save"                        -> 7

LastCall == IF calls = << >> THEN "none" ELSE calls[Len(calls)]

PathConfigured == params.saved_model_path = PyStr("/export/model")

\* C1: while saved_model_path is absent, None or "", on_train_end is a no-op:
\* it returns at once, makes no call to the task data service, the model
\* handler or the filesystem, and leaves the filesystem and the model's
\* optimizer as they were.
C1_UnsetPathNoOp ==
    (registered = "SavedModelExporter"
        /\ params.saved_model_path \in {NoKey, PyNone, PyStr("")})
    => /\ pc \in {"idle", "returned"}
       /\ calls = << >>
       /\ exported = NoModel
       /\ fs = entry.fs
       /\ optimizer = entry.optimizer

C1_Witness ==
    /\ pc = "returned"
    /\ params.saved_model_path = PyStr("")
    /\ fs = Dir({0})
    /\ nCalls = 2

\* C2 as stated: whenever on_train_end returns with a configured path at which
\* a directory existed, the path holds exactly the newly saved model.
C2_ReplacedOnEveryReturn ==
    (pc = "returned" /\ PathConfigured /\ entry.fs.kind = "dir")
    => fs = Dir({nCalls})

\* C2 amended: when on_train_end returns with a configured path at which a
\* directory existed, and the data service returned a dataset, the path holds
\* exactly the newly saved model and nothing of the old directory; when the
\* data service returned no dataset the directory is left as it was.
C2_ReplacedWhenDatasetGiven ==
    (pc = "returned" /\ PathConfigured /\ entry.fs.kind = "dir")
    => IF LastCall = "get_dataset_by_task"
       THEN fs = entry.fs
       ELSE /\ LastCall = "save"
            /\ fs = Dir({nCalls})
            /\ fs.items \cap entry.fs.items = {}

C2_Witness ==
    /\ pc = "returned"
    /\ PathConfigured
    /\ entry.fs = Dir({0})
    /\ fs = Dir({nCalls})

\* C10: the external calls of on_train_end happen in the order dataset fetch,
\* model conversion, removal of the old artifact, detaching the optimizer,
\* save; when the save starts the exported model's optimizer is None and the
\* path holds nothing; a returned export made all of these steps; and when the
\* dataset fetch or the model conversion fails, the old artifact is untouched.
C10_ExportOrder ==
    /\ \A i, j \in DOMAIN calls : i < j => ExportRank(calls[i]) < ExportRank(calls[j])
    /\ pc = "save" => /\ ExportedOptimizer = NoneOptimizer
                      /\ fs = Absent
                      /\ LastCall = "detach_optimizer"
    /\ (pc = "returned" /\ LastCall = "save")
       => \A c \in {"get_train_end_callback_task", "get_dataset_by_task", "dataset_fn",
                    "get_model_to_export", "detach_optimizer"} :
             \E i \in DOMAIN calls : calls[i] = c
    /\ (pc = "raised" /\ LastCall \in {"get_train_end_callback_task", "get_dataset_by_task",
                                       "dataset_fn", "get_model_to_export"})
       => fs = entry.fs

C10_Witness ==
    /\ pc = "save"
    /\ entry.fs = Dir({0})
    /\ exported.is = "self"
    /\ entry.optimizer = CompiledOptimizer
    /\ calls = << "get_train_end_callback_task", "get_dataset_by_task", "dataset_fn",
                  "get_model_to_export", "rmtree", "detach_optimizer" >>

-----------------------------------------------------------------------------
(* Properties of MaxStepsStopping *)

\* the last call was on_task_end for a TRAINING task and it returned, which it
\* does exactly when batch_size is a non-zero integer
TrainingTaskCounted ==
    /\ lastTask.op = "on_task_end"
    /\ lastTask.task.type = "TRAINING"
    /\ params.batch_size.kind = "int"
    /\ params.batch_size.v # 0

TaskRecords == lastTask.task.end - lastTask.task.start

\* C3 as stated: after on_task_end for a TRAINING task with a non-zero integer
\* batch_size the counter is the counter before the call plus
\* floor((task.end - task.start) / batch_size).
C3_CounterGrowsByFloor ==
    TrainingTaskCounted
    => completed_steps = lastTask.steps0 + FloorDiv(TaskRecords, params.batch_size.v)

\* C3 amended: the counter grows by (task.end - task.start) / batch_size
\* truncated toward zero: the increment d has |d| * |batch_size| <= |records|
\* < (|d| + 1) * |batch_size| and the sign of the quotient; it is the floor
\* whenever the quotient is not negative.
C3_CounterGrowsByTruncation ==
    TrainingTaskCounted
    => LET d == completed_steps - lastTask.steps0
           b == params.batch_size.v
           sameSign == (TaskRecords < 0) = (b < 0)
       IN  /\ lastTask.result = "ok"
           /\ Abs(d) * Abs(b) <= Abs(TaskRecords)
           /\ Abs(TaskRecords) < (Abs(d) + 1) * Abs(b)
           /\ d > 0 => sameSign
           /\ d < 0 => ~sameSign
           /\ (sameSign \/ TaskRecords = 0) => d = FloorDiv(TaskRecords, b)

C3_Witness ==
    /\ TrainingTaskCounted
    /\ lastTask.prev_op = "none"
    /\ lastTask.task.start = 0
    /\ lastTask.task.end = 250
    /\ params.batch_size = PyInt(50)
    /\ max_steps = 4
    /\ completed_steps = 5
    /\ stop_training

\* C4: after an on_task_end for a TRAINING task that updated the counter,
\* stop_training is true when the counter is strictly above max_steps, and
\* otherwise has the value it had before the call.
C4_StopIffExceeded ==
    (TrainingTaskCounted /\ lastTask.result = "ok")
    => IF completed_steps > max_steps
       THEN stop_training = TRUE
       ELSE stop_training = lastTask.stop0

\* a call that ends at or below max_steps and leaves an earlier stop request
\* standing
C4_Witness ==
    /\ TrainingTaskCounted
    /\ lastTask.result = "ok"
    /\ completed_steps =< max_steps
    /\ completed_steps > lastTask.steps0
    /\ lastTask.stop0 = TRUE
    /\ stop_training = TRUE

ResumedAt999 ==
    /\ max_steps = 1000
    /\ lastTask.op = "on_task_end"
    /\ lastTask.prev_op = "set_completed_steps"
    /\ lastTask.steps0 = 999
    /\ lastTask.task.type = "TRAINING"
    /\ TaskRecords = 50
    /\ params.batch_size = PyInt(50)

\* C5 as stated: with max_steps = 1000 and the counter set to 999, one
\* on_task_end for a TRAINING task of 50 records with batch_size 50 sets
\* stop_training.
C5_ResumeStopsAfterOneTask ==
    ResumedAt999 => stop_training = TRUE

\* C5 amended: that call brings the counter to 1000, which does not exceed
\* max_steps, so stop_training keeps the value it had; a further step, which
\* brings the counter from 1000 to 1001, sets it.
C5_ResumeStopsAboveMax ==
    /\ ResumedAt999 => /\ completed_steps = 1000
                       /\ stop_training = lastTask.stop0
    /\ (max_steps = 1000 /\ TrainingTaskCounted /\ lastTask.steps0 = 1000
            /\ TaskRecords = 50 /\ params.batch_size = PyInt(50))
       => (completed_steps = 1001 /\ stop_training = TRUE)

C5_Witness ==
    /\ ResumedAt999
    /\ completed_steps = 1000
    /\ stop_training = FALSE

\* C6: on_task_end for a task that is not of TRAINING type returns without
\* changing the counter or stop_training, whatever the batch_size.
C6_NonTrainingIgnored ==
    (lastTask.op = "on_task_end" /\ lastTask.task.type # "TRAINING")
    => /\ lastTask.result = "ok"
       /\ completed_steps = lastTask.steps0
       /\ stop_training = lastTask.stop0

\* a non-training task arriving while the counter is above max_steps
C6_Witness ==
    /\ lastTask.op = "on_task_end"
    /\ lastTask.task.type = "EVALUATION"
    /\ lastTask.task.end - lastTask.task.start = 250
    /\ params.batch_size = PyInt(50)
    /\ completed_steps > max_steps
    /\ stop_training = FALSE

\* C7 as stated: no on_task_end call, whatever the task, lowers the counter.
C7_CounterNeverDecreases ==
    lastTask.op = "on_task_end" => completed_steps >= lastTask.steps0

\* C7 amended: no on_task_end call lowers the counter when the task has
\* end >= start and batch_size is not negative.
C7_CounterMonotonicOnForwardTasks ==
    (/\ lastTask.op = "on_task_end"
     /\ lastTask.task.end >= lastTask.task.start
     /\ params.batch_size.kind = "int" => params.batch_size.v >= 0)
    => completed_steps >= lastTask.steps0

C7_Witness ==
    /\ TrainingTaskCounted
    /\ lastTask.prev_op = "on_task_end"
    /\ TaskRecords > 0
    /\ params.batch_size.v > 0
    /\ lastTask.steps0 > 0
    /\ completed_steps > lastTask.steps0

-----------------------------------------------------------------------------
(* Properties of LearningRateScheduler *)

Scheduled == Schedule(schedule, lastBatch.batch)

\* the types Python counts as numbers
IsNumeric(value) ==
    value.kind \in {"int", "float", "np.float16", "np.float32", "np.float64", "tf.Tensor"}

\* C8: when the optimizer has no lr attribute, on_train_batch_begin raises
\* ValueError without calling the schedule and without changing the optimizer.
C8_NoLrAttributeRejected ==
    (lastBatch.op = "on_train_batch_begin" /\ lastBatch.optimizer0.kind # "lr")
    => /\ lastBatch.result = "ValueError: optimizer"
       /\ lastBatch.schedule_calls = 0
       /\ optimizer = lastBatch.optimizer0

C8_Witness ==
    /\ lastBatch.op = "on_train_batch_begin"
    /\ lastBatch.optimizer0.kind = "no_lr"
    /\ lastBatch.batch = 1000
    /\ schedule = "step"
    /\ lastBatch.result = "ValueError: optimizer"

\* C9 as stated: with an lr attribute, ValueError is raised exactly when the
\* schedule returns a non-numeric value, leaving the learning rate unchanged;
\* for a numeric value the learning rate becomes that value (as the lr
\* variable's dtype holds it).
C9_ErrorIffNonNumeric ==
    (lastBatch.op = "on_train_batch_begin" /\ lastBatch.optimizer0.kind = "lr")
    => /\ (lastBatch.result # "ok") <=> ~IsNumeric(Scheduled)
       /\ lastBatch.result # "ok" => optimizer = lastBatch.optimizer0
       /\ IsNumeric(Scheduled)
            => optimizer.lr = AsDtype(Scheduled.v, lastBatch.optimizer0.dtype)

\* C9 amended: with an lr variable, ValueError is raised exactly when the
\* schedule returns a value that is not a tf.Tensor, float, np.float32 or
\* np.float64 (a string, but also an int or an np.float16), leaving the
\* optimizer unchanged; otherwise the learning rate becomes the returned value
\* converted to the dtype of the lr variable.
C9_ErrorIffNotFloatType ==
    (lastBatch.op = "on_train_batch_begin" /\ lastBatch.optimizer0.kind = "lr")
    => /\ lastBatch.schedule_calls = 1
       /\ IF Scheduled.kind \in {"tf.Tensor", "float", "np.float32", "np.float64"}
          THEN /\ lastBatch.result = "ok"
               /\ optimizer = [lastBatch.optimizer0 EXCEPT
                                  !.lr = AsDtype(Scheduled.v, lastBatch.optimizer0.dtype)]
          ELSE /\ lastBatch.result = "ValueError: schedule"
               /\ optimizer = lastBatch.optimizer0

C9_Witness ==
    /\ lastBatch.op = "on_train_batch_begin"
    /\ lastBatch.optimizer0.kind = "lr"
    /\ schedule = "int"
    /\ lastBatch.result = "ValueError: schedule"
    /\ optimizer = lastBatch.optimizer0

====
